---------------------------- MODULE Spec2Model ----------------------------
(***************************************************************************)
(* Model of the health-insurance ETL object (src/src/etl.py) and of the    *)
(* analyzer (src/src/analysis.py).                                         *)
(*                                                                         *)
(* A DataFrame is an object on a heap: the ETL's raw_data and              *)
(* processed_data, and the dataset a caller passes to transform(), are     *)
(* references, so that in-place mutation and aliasing can be observed.     *)
(*                                                                         *)
(* Units: bmi is held in tenths (18.5 is 185), so that the breakpoints of  *)
(* pd.cut are integers.  A cell that is NaN/None is named in the row's     *)
(* "nulls" set (the row of DataFrame.isna()); its value is a placeholder.  *)
(***************************************************************************)
EXTENDS Integers, Sequences, FiniteSets, TLC

VARIABLES
    file,            \* the CSV file at self.data_path: whether it exists, and its table
    heap,            \* reference -> DataFrame
    raw_data,        \* self.raw_data: a reference or None
    processed_data,  \* self.processed_data: a reference or None
    held,            \* the caller's own dataset object (a reference)
    extract_succeeded, \* history: some extract() call has returned normally
    transform_succeeded, \* history: some transform() call has returned normally
    disk,            \* the output side: the directories made and the files written
    pipeline,        \* the run_pipeline() call in progress: its position and its steps
    ret              \* the last call: its name, argument, outcome and result

vars == <<file, heap, raw_data, processed_data, held, extract_succeeded,
          transform_succeeded, disk, pipeline, ret>>

\* Python's None, where a reference is expected (references start at 1)
None == 0
\* a missing value in a column of strings or categories
Null == "NaN"

\* ------------------------------------------------------------------ bounds
MaxRows == 2

\* ----------------------------------------------------------------- columns
RawCols == {"age", "sex", "bmi", "children", "smoker", "region", "charges"}
DerivedCols == {"bmi_category", "age_group", "is_smoker", "charges_per_person"}

Sexes == {"male", "female"}
SmokerValues == {"yes", "no"}
Regions == {"southwest", "southeast", "northwest", "northeast"}

\* ------------------------------------------------------------- float cells
RECURSIVE GCD(_, _)
GCD(a, b) == IF b = 0 THEN a ELSE GCD(b, a % b)

Abs(x) == IF x < 0 THEN -x ELSE x

NaN == [k |-> "nan", n |-> 0, d |-> 1]
PosInf == [k |-> "inf", n |-> 1, d |-> 1]
NegInf == [k |-> "inf", n |-> -1, d |-> 1]

\* the float n/d, d > 0, in lowest terms
Num(n, d) ==
    LET g == GCD(Abs(n), d)
    IN [k |-> "num", n |-> n \div g, d |-> d \div g]

IsNaN(x) == x.k = "nan"

\* floor division (//) in the place of true division
DivideFloor(a, b) ==
    IF b = 0
    THEN (IF a = 0 THEN NaN ELSE IF a > 0 THEN PosInf ELSE NegInf)
    ELSE Num(a \div b, 1)

\* float64 division of two integers, as numpy does it for a Series: a zero
\* divisor gives inf, -inf or NaN, never an exception
Divide(a, b) ==
    IF b = 0
    THEN (IF a = 0 THEN NaN ELSE IF a > 0 THEN PosInf ELSE NegInf)
    ELSE IF b < 0 THEN Num(-a, -b) ELSE Num(a, b)

\* ------------------------------------------------------------------ pd.cut
BmiBins == <<0, 185, 250, 300, 1000>>
BmiLabels == <<"Underweight", "Normal", "Overweight", "Obese">>
AgeBins == <<0, 25, 35, 45, 55, 100>>
AgeLabels == <<"18-25", "26-35", "36-45", "46-55", "56+">>

\* right = False: every interval closed on the left, open on the right
CutLeftClosed(x, isnull, bins, labels) ==
    IF isnull
    THEN Null
    ELSE IF \E i \in 1..Len(labels) : bins[i] <= x /\ x < bins[i + 1]
         THEN labels[CHOOSE i \in 1..Len(labels) : bins[i] <= x /\ x < bins[i + 1]]
         ELSE Null

\* pd.cut(x, bins, labels) with its defaults right=True, include_lowest=False:
\* x in (bins[i], bins[i+1]] gets labels[i]; any other x, and NaN, gets NaN
Cut(x, isnull, bins, labels) ==
    IF isnull
    THEN Null
    ELSE IF \E i \in 1..Len(labels) : bins[i] < x /\ x <= bins[i + 1]
         THEN labels[CHOOSE i \in 1..Len(labels) : bins[i] < x /\ x <= bins[i + 1]]
         ELSE Null

\* -------------------------------------------------------------- input data
Rec(age, sex, bmi, children, smoker, region, charges) ==
    [age |-> age, sex |-> sex, bmi |-> bmi, children |-> children,
     smoker |-> smoker, region |-> region, charges |-> charges, nulls |-> {}]

\* the empty cell of a CSV row, read by pd.read_csv as NaN
Missing(r, c) ==
    [r EXCEPT ![c] = IF c \in {"sex", "smoker", "region"} THEN Null ELSE 0,
              !.nulls = @ \cup {c}]

\* The rows a CSV file, or a caller's dataset, is made of.  Every breakpoint
\* of both binnings occurs, with a value on each side of it; two rows share
\* the largest charges; two rows have an empty cell; two rows have a
\* categorical value outside the documented domain.
RowPool ==
    { Rec(25, "female", 185, 1, "yes", "northeast", 20000),
      Rec(26, "male", 250, 3, "no", "southwest", 4000),
      Rec(35, "female", 300, 0, "yes", "southeast", 9000),
      Rec(36, "male", 1000, 1, "no", "northwest", 7000),
      Rec(45, "female", 1050, 0, "no", "northeast", 5000),
      Rec(46, "male", 0, 2, "yes", "southwest", 12000),
      Rec(55, "female", 220, 0, "no", "southeast", 3000),
      Rec(56, "male", 310, 2, "yes", "northwest", 20000),
      Rec(100, "other", 170, 0, "no", "mars", 1500),
      Rec(101, "male", 260, 0, "maybe", "southwest", 2000),
      Rec(0, "female", 280, 0, "yes", "southeast", 1000),
      Missing(Rec(40, "male", 230, 1, "no", "northwest", 2500), "bmi"),
      Missing(Rec(40, "female", 270, 1, "no", "northeast", 3500), "smoker") }

RECURSIVE SeqsUpTo(_, _)
SeqsUpTo(S, n) ==
    IF n = 0
    THEN {<<>>}
    ELSE LET shorter == SeqsUpTo(S, n - 1)
         IN shorter \cup {Append(s, x) : s \in {t \in shorter : Len(t) = n - 1}, x \in S}

\* the DataFrame pd.read_csv builds from a file with the seven raw columns
Frame(rows) == [cols |-> RawCols, cats |-> <<>>, rows |-> rows]

Datasets == {Frame(rows) : rows \in SeqsUpTo(RowPool, MaxRows)}

\* -------------------------------------------------------------------- heap
\* a reference no live object has
NewRef(h) == CHOOSE i \in 1..(Cardinality(DOMAIN h) + 1) : i \notin DOMAIN h

\* the heap without the objects nothing refers to any more
Collect(h, roots) == [i \in DOMAIN h \cap roots |-> h[i]]

\* ---------------------------------------------------------------- dropna()
HasNull(r) == r.nulls # {}

\* dropna(how='all'): only a row with no value at all goes
DropNAHowAll(rows) == SelectSeq(rows, LAMBDA r : ~(RawCols \subseteq r.nulls))

\* a filter that also drops the rows with an undocumented categorical value
DropInvalid(rows) ==
    SelectSeq(rows, LAMBDA r : /\ ~HasNull(r)
                               /\ r.sex \in Sexes
                               /\ r.smoker \in SmokerValues
                               /\ r.region \in Regions)

\* DataFrame.dropna(): the rows without any null cell, in their order

DropNA(rows) == SelectSeq(rows, LAMBDA r : ~HasNull(r))

\* ------------------------------------------------------------- transform()
\* dropna(inplace=True) on the input itself, without the copy
PrepareInPlace(h, ref, live) ==
    [heap |-> [h EXCEPT ![ref].rows = DropNA(@)], ref |-> ref]

\* lines 57-66: data.copy() and then dropna() each build a new frame, so
\* the working frame is a new object and the input object is not written to
\* (the intermediate copy is dead as soon as dropna() has returned)
Prepare(h, ref, live) ==
    LET d == NewRef(Collect(h, live))
    IN [heap |-> (d :> [h[ref] EXCEPT !.rows = DropNA(@)]) @@ h, ref |-> d]

\* one row with its derived features (lines 78-95)
Derive(r) ==
    LET bc == Cut(r.bmi, "bmi" \in r.nulls, BmiBins, BmiLabels)
        ag == Cut(r.age, "age" \in r.nulls, AgeBins, AgeLabels)
        cpp == IF {"charges", "children"} \cap r.nulls # {}
               THEN NaN
               ELSE Divide(r.charges, r.children + 1)
        derivedNulls == (IF bc = Null THEN {"bmi_category"} ELSE {})
                        \cup (IF ag = Null THEN {"age_group"} ELSE {})
                        \cup (IF IsNaN(cpp) THEN {"charges_per_person"} ELSE {})
    IN [bmi_category |-> bc,
        age_group |-> ag,
        is_smoker |-> IF r.smoker = "yes" THEN 1 ELSE 0,
        charges_per_person |-> cpp,
        nulls |-> (r.nulls \ DerivedCols) \cup derivedNulls] @@ r

\* the values of column c that are not null
Observed(rows, c) ==
    {rows[i][c] : i \in {j \in 1..Len(rows) : c \notin rows[j].nulls}}

\* lines 72-95, applied in place to the working frame: astype('category')
\* gives a column the categories that occur in it (and leaves a column that
\* is categorical already as it is), pd.cut gives its labels as categories
Features(f) ==
    LET typed == [c \in {"sex", "smoker", "region"} |->
                     IF c \in DOMAIN f.cats THEN f.cats[c] ELSE Observed(f.rows, c)]
        cut == [c \in {"bmi_category", "age_group"} |->
                   IF c = "bmi_category"
                   THEN {BmiLabels[i] : i \in 1..Len(BmiLabels)}
                   ELSE {AgeLabels[i] : i \in 1..Len(AgeLabels)}]
    IN [cols |-> f.cols \cup DerivedCols,
        cats |-> cut @@ typed,
        rows |-> [i \in 1..Len(f.rows) |-> Derive(f.rows[i])]]

Call(op, data, param, status, value) ==
    [op |-> op, data |-> data, param |-> param, status |-> status, value |-> value]

Roots(raw, processed, call) == {raw, processed, held, call.data}

\* ------------------------------------------------------------------- state
\* an output path, by its directory part and its file name
Path(dir, name) == [dir |-> dir, name |-> name]

\* output_path = None
NoPath == Path("", "")

\* os.path.dirname(output_path)
Dirname(path) == path.dir

\* the paths load() is called with: the one of main.py, and a bare file name
OutputPaths == {Path("data", "processed_insurance.csv"), Path("", "processed.csv")}

\* no run_pipeline() call is in progress
NoPipeline == [pc |-> "idle", path |-> NoPath, steps |-> <<>>]

Init ==
    /\ \E d \in Datasets :
          /\ heap = (1 :> d)
          /\ file \in {[exists |-> e, table |-> d] : e \in BOOLEAN}
    /\ held = 1
    /\ raw_data = None
    /\ processed_data = None
    /\ extract_succeeded = FALSE
    /\ transform_succeeded = FALSE
    /\ disk = [dirs |-> {}, files |-> <<>>]
    /\ pipeline = NoPipeline
    /\ ret = Call("__init__", None, "", "ok", None)

\* an extract() that also forgets what an earlier transform() produced
ExtractResets ==
    IF ~file.exists
    THEN /\ ret' = Call("extract", None, "", "FileNotFoundError", None)
         /\ heap' = Collect(heap, Roots(raw_data, processed_data, ret'))
         /\ UNCHANGED <<file, raw_data, processed_data, held, extract_succeeded,
                        transform_succeeded, disk>>
    ELSE LET r == NewRef(Collect(heap, {held}))
         IN /\ raw_data' = r
            /\ processed_data' = None
            /\ extract_succeeded' = TRUE
            /\ ret' = Call("extract", None, "", "ok", r)
            /\ heap' = Collect((r :> file.table) @@ heap, Roots(r, None, ret'))
            /\ UNCHANGED <<file, held, transform_succeeded, disk>>

\* extract(), lines 38-45
Extract ==
    IF ~file.exists
    THEN /\ ret' = Call("extract", None, "", "FileNotFoundError", None)
         /\ heap' = Collect(heap, Roots(raw_data, processed_data, ret'))
         /\ UNCHANGED <<file, raw_data, processed_data, held, extract_succeeded,
                        transform_succeeded, disk>>
    ELSE LET r == NewRef(Collect(heap, {held, processed_data}))
         IN /\ raw_data' = r
            /\ extract_succeeded' = TRUE
            /\ ret' = Call("extract", None, "", "ok", r)
            /\ heap' = Collect((r :> file.table) @@ heap, Roots(r, processed_data, ret'))
            /\ UNCHANGED <<file, processed_data, held, transform_succeeded, disk>>

\* the datasets a caller passes: none, or its own
Arguments == {None, held}

\* a wrong way out of lines 58-59: go on with an empty table instead of raising
TransformEmptyOnNoData(data) ==
    LET d == NewRef(Collect(heap, {held, raw_data}))
    IN /\ processed_data' = d
       /\ ret' = Call("transform", data, "", "ok", d)
       /\ heap' = Collect((d :> Features(Frame(<<>>))) @@ heap, Roots(raw_data, d, ret'))
       /\ transform_succeeded' = TRUE
       /\ UNCHANGED <<file, raw_data, held, extract_succeeded, disk>>

\* lines 58-59: no argument and no raw data: raise, before anything is built
TransformOnNoData(data) ==
    /\ ret' = Call("transform", data, "", "ValueError", None)
    /\ heap' = Collect(heap, Roots(raw_data, processed_data, ret'))
    /\ UNCHANGED <<file, raw_data, processed_data, held, extract_succeeded,
                   transform_succeeded, disk>>

\* transform(data), lines 57-100, for one argument
TransformCall(data) ==
    IF data = None /\ raw_data = None
    THEN TransformOnNoData(data)
    ELSE LET src == IF data = None THEN raw_data ELSE data
             p == Prepare(heap, src, {held, raw_data, data})
             h == [p.heap EXCEPT ![p.ref] = Features(@)]
         IN /\ processed_data' = p.ref
            /\ transform_succeeded' = TRUE
            /\ ret' = Call("transform", data, "", "ok", p.ref)
            /\ heap' = Collect(h, Roots(raw_data, p.ref, ret'))
            /\ UNCHANGED <<file, raw_data, held, extract_succeeded, disk>>

\* transform(data), lines 57-100
Transform == \E data \in Arguments : TransformCall(data)

\* ------------------------------------------------------------------ load()
\* DataFrame.to_csv(path, index=False): the columns and the rows, as text
\* (the dtypes and the categories are not in the file)
Written(f) == [cols |-> f.cols, rows |-> f.rows]

\* makedirs() ahead of the check of lines 110-112
LoadMkdirFirst(path, data) ==
    IF Dirname(path) = ""
    THEN /\ ret' = Call("load", data, path, "FileNotFoundError", None)
         /\ heap' = Collect(heap, Roots(raw_data, processed_data, ret'))
         /\ UNCHANGED <<file, raw_data, processed_data, held, extract_succeeded,
                        transform_succeeded, disk>>
    ELSE IF data = None /\ processed_data = None
         THEN /\ ret' = Call("load", data, path, "ValueError", None)
              /\ disk' = [disk EXCEPT !.dirs = @ \cup {Dirname(path)}]
              /\ heap' = Collect(heap, Roots(raw_data, processed_data, ret'))
              /\ UNCHANGED <<file, raw_data, processed_data, held, extract_succeeded,
                             transform_succeeded>>
         ELSE LET src == IF data = None THEN processed_data ELSE data
              IN /\ ret' = Call("load", data, path, "ok", None)
                 /\ disk' = [dirs |-> disk.dirs \cup {Dirname(path)},
                             files |-> (path :> Written(heap[src])) @@ disk.files]
                 /\ heap' = Collect(heap, Roots(raw_data, processed_data, ret'))
                 /\ UNCHANGED <<file, raw_data, processed_data, held, extract_succeeded,
                                transform_succeeded>>

\* load(output_path, data), lines 110-119, for one path and one argument:
\* without data and without processed data it raises first; os.makedirs('')
\* (a path without a directory part) raises FileNotFoundError; otherwise
\* the directory is made and the file written
LoadCall(path, data) ==
    IF data = None /\ processed_data = None
    THEN /\ ret' = Call("load", data, path, "ValueError", None)
         /\ heap' = Collect(heap, Roots(raw_data, processed_data, ret'))
         /\ UNCHANGED <<file, raw_data, processed_data, held, extract_succeeded,
                        transform_succeeded, disk>>
    ELSE IF Dirname(path) = ""
         THEN /\ ret' = Call("load", data, path, "FileNotFoundError", None)
              /\ heap' = Collect(heap, Roots(raw_data, processed_data, ret'))
              /\ UNCHANGED <<file, raw_data, processed_data, held, extract_succeeded,
                             transform_succeeded, disk>>
         ELSE LET src == IF data = None THEN processed_data ELSE data
              IN /\ ret' = Call("load", data, path, "ok", None)
                 /\ disk' = [dirs |-> disk.dirs \cup {Dirname(path)},
                             files |-> (path :> Written(heap[src])) @@ disk.files]
                 /\ heap' = Collect(heap, Roots(raw_data, processed_data, ret'))
                 /\ UNCHANGED <<file, raw_data, processed_data, held, extract_succeeded,
                                transform_succeeded>>

\* load(output_path, data), lines 102-119
Load == \E path \in OutputPaths, data \in Arguments : LoadCall(path, data)

\* ---------------------------------------------------------- run_pipeline()
Idle == pipeline.pc = "idle"

\* where run_pipeline() goes after a step: on, or out with the exception
After(call, next) == IF call.status = "ok" THEN next ELSE "raise"

\* run_pipeline(output_path) is entered, lines 131-136
RunPipeline ==
    /\ Idle
    /\ \E path \in OutputPaths \cup {NoPath} :
          /\ pipeline' = [pc |-> "extract", path |-> path, steps |-> <<>>]
          /\ ret' = Call("run_pipeline", None, path, "running", None)
    /\ heap' = Collect(heap, Roots(raw_data, processed_data, ret'))
    /\ UNCHANGED <<file, raw_data, processed_data, held, extract_succeeded,
                   transform_succeeded, disk>>

\* line 137: self.extract()
PipelineExtract ==
    /\ pipeline.pc = "extract"
    /\ Extract
    /\ pipeline' = [pipeline EXCEPT !.pc = After(ret', "transform"),
                                    !.steps = Append(@, "extract")]

\* lines 141-148: self.transform(), and then load only for a path that is
\* not None (and not empty)
PipelineTransform ==
    /\ pipeline.pc = "transform"
    /\ TransformCall(None)
    /\ pipeline' = [pipeline EXCEPT
                       !.pc = After(ret', IF pipeline.path = NoPath THEN "return" ELSE "load"),
                       !.steps = Append(@, "transform")]

\* line 146: self.load(output_path)
PipelineLoad ==
    /\ pipeline.pc = "load"
    /\ LoadCall(pipeline.path, None)
    /\ pipeline' = [pipeline EXCEPT !.pc = After(ret', "return"),
                                    !.steps = Append(@, "load")]

\* line 154, or the exception of a step leaving run_pipeline()
PipelineReturn ==
    /\ pipeline.pc \in {"return", "raise"}
    /\ ret' = Call("run_pipeline", None, pipeline.path,
                   IF pipeline.pc = "return" THEN "ok" ELSE ret.status,
                   [steps |-> pipeline.steps,
                    result |-> IF pipeline.pc = "return" THEN processed_data ELSE None])
    /\ pipeline' = NoPipeline
    /\ heap' = Collect(heap, Roots(raw_data, processed_data, ret'))
    /\ UNCHANGED <<file, raw_data, processed_data, held, extract_succeeded,
                   transform_succeeded, disk>>

\* ---------------------------------------------------------------- analyzer
\* HealthInsuranceAnalyzer(data): as in main.py, the frame analysed is the
\* processed frame the ETL object returned
AnalyzerData == heap[processed_data]

RECURSIVE SumOver(_, _)
SumOver(f, S) ==
    IF S = {}
    THEN 0
    ELSE LET x == CHOOSE y \in S : TRUE
         IN f[x] + SumOver(f, S \ {x})

Min(S) == CHOOSE x \in S : \A y \in S : x <= y
Max(S) == CHOOSE x \in S : \A y \in S : x >= y

\* the indices of the rows where column c is not null
NotNull(rows, c) == {i \in 1..Len(rows) : c \notin rows[i].nulls}

\* 'nunique' in the place of 'count': the distinct charges of each group
GroupChargesNunique(f, factor) ==
    LET keyed == NotNull(f.rows, factor)
        keys == IF factor \in DOMAIN f.cats
                THEN f.cats[factor]
                ELSE {f.rows[i][factor] : i \in keyed}
        charges(k) == {i \in keyed \cap NotNull(f.rows, "charges") : f.rows[i][factor] = k}
        values(k) == {f.rows[i].charges : i \in charges(k)}
    IN [k \in keys |->
           [count |-> Cardinality(values(k)),
            min |-> IF charges(k) = {} THEN NaN ELSE Num(Min(values(k)), 1),
            max |-> IF charges(k) = {} THEN NaN ELSE Num(Max(values(k)), 1)]]

\* groupby(factor, observed=False)['charges'].agg(count, ..., min, max),
\* lines 45-52: rows whose key is null belong to no group (dropna=True is the
\* default of groupby); a categorical key gives one group per category, also
\* the categories no row has; count is the number of non-null charges
GroupCharges(f, factor) ==
    LET keyed == NotNull(f.rows, factor)
        keys == IF factor \in DOMAIN f.cats
                THEN f.cats[factor]
                ELSE {f.rows[i][factor] : i \in keyed}
        charges(k) == {i \in keyed \cap NotNull(f.rows, "charges") : f.rows[i][factor] = k}
        values(k) == {f.rows[i].charges : i \in charges(k)}
    IN [k \in keys |->
           [count |-> Cardinality(charges(k)),
            min |-> IF charges(k) = {} THEN NaN ELSE Num(Min(values(k)), 1),
            max |-> IF charges(k) = {} THEN NaN ELSE Num(Max(values(k)), 1)]]

\* the sum of the count column of a result of analyze_charges_by_factor
CountTotal(groups) == SumOver([k \in DOMAIN groups |-> groups[k].count], DOMAIN groups)

\* Series.mean(): NaN cells are skipped, and the mean of nothing is NaN
Mean(rows, idx) ==
    LET present == idx \cap NotNull(rows, "charges")
    IN IF present = {}
       THEN NaN
       ELSE Num(SumOver([i \in present |-> rows[i].charges], present), Cardinality(present))

\* float arithmetic on the results of mean(): NaN propagates, and a division
\* by zero gives inf or NaN with a warning, not an exception
FSub(x, y) ==
    IF IsNaN(x) \/ IsNaN(y) THEN NaN ELSE Num(x.n * y.d - y.n * x.d, x.d * y.d)

FDiv(x, y) ==
    IF IsNaN(x) \/ IsNaN(y)
    THEN NaN
    ELSE IF y.n = 0
         THEN (IF x.n = 0 THEN NaN ELSE IF x.n > 0 THEN PosInf ELSE NegInf)
         ELSE IF y.n < 0
              THEN Num(-(x.n * y.d), -(y.n * x.d))
              ELSE Num(x.n * y.d, y.n * x.d)

\* (x - 1) * 100
PercentOver(x) ==
    IF x.k = "num" THEN Num(100 * (x.n - x.d), x.d) ELSE x

\* analyze_smoker_impact(), lines 63-75
SmokerImpact(f) ==
    LET smoker == {i \in NotNull(f.rows, "smoker") : f.rows[i].smoker = "yes"}
        non_smoker == {i \in NotNull(f.rows, "smoker") : f.rows[i].smoker = "no"}
        smoker_avg == Mean(f.rows, smoker)
        non_smoker_avg == Mean(f.rows, non_smoker)
    IN [smoker_avg |-> smoker_avg,
        non_smoker_avg |-> non_smoker_avg,
        difference |-> FSub(smoker_avg, non_smoker_avg),
        percentage_increase |-> PercentOver(FDiv(smoker_avg, non_smoker_avg)),
        smoker_count |-> Cardinality(smoker),
        non_smoker_count |-> Cardinality(non_smoker)]

\* the non-null charges in ascending order
RECURSIVE Ascending(_, _)
Ascending(rows, idx) ==
    IF idx = {}
    THEN <<>>
    ELSE LET i == CHOOSE j \in idx : \A k \in idx : rows[j].charges <= rows[k].charges
         IN <<rows[i].charges>> \o Ascending(rows, idx \ {i})

\* 100 times Series.quantile(percentile / 100) of n >= 1 sorted values, by
\* linear interpolation between the two values next to position
\* (n - 1) * percentile / 100
Quantile100(sorted, percentile) ==
    LET n == Len(sorted)
        pos == (n - 1) * percentile
        lo == (pos \div 100) + 1
        hi == IF lo < n THEN lo + 1 ELSE n
    IN 100 * sorted[lo] + (pos % 100) * (sorted[hi] - sorted[lo])

\* a range check that forgets the upper end
QuantileAcceptsNoUpper(percentile) == 0 <= percentile

\* Series.quantile(q) raises ValueError unless 0 <= q <= 1
QuantileAccepts(percentile) == 0 <= percentile /\ percentile <= 100

\* charges > threshold in the place of charges >= threshold
HighRiskStrict(f, percentile) ==
    LET present == NotNull(f.rows, "charges")
        sorted == Ascending(f.rows, present)
    IN [f EXCEPT !.rows =
           IF present = {}
           THEN <<>>
           ELSE SelectSeq(f.rows, LAMBDA r :
                    /\ "charges" \notin r.nulls
                    /\ 100 * r.charges > Quantile100(sorted, percentile))]

\* the rows kept by line 140: charges >= threshold, which is False for a NaN
\* charges and for a NaN threshold (the quantile of no values)
HighRisk(f, percentile) ==
    LET present == NotNull(f.rows, "charges")
        sorted == Ascending(f.rows, present)
    IN [f EXCEPT !.rows =
           IF present = {}
           THEN <<>>
           ELSE SelectSeq(f.rows, LAMBDA r :
                    /\ "charges" \notin r.nulls
                    /\ 100 * r.charges >= Quantile100(sorted, percentile))]

Factors == RawCols \cup DerivedCols \cup {"zodiac"}
Percentiles == {-5, 0, 75, 100, 105}

\* a check against the columns of the CSV file, not those of the frame
KnownFactorRawOnly(f, factor) == factor \in RawCols

\* line 42: factor in self.data.columns
KnownFactor(f, factor) == factor \in f.cols

\* analyze_charges_by_factor(factor), lines 42-54
AnalyzeChargesByFactor ==
    /\ processed_data # None
    /\ \E factor \in Factors :
          ret' = IF ~KnownFactor(AnalyzerData, factor)
                 THEN Call("analyze_charges_by_factor", processed_data, factor,
                           "ValueError", None)
                 ELSE Call("analyze_charges_by_factor", processed_data, factor,
                           "ok", GroupCharges(AnalyzerData, factor))
    /\ UNCHANGED <<file, heap, raw_data, processed_data, held, extract_succeeded,
                   transform_succeeded, disk>>

\* analyze_smoker_impact(), lines 63-75
AnalyzeSmokerImpact ==
    /\ processed_data # None
    /\ ret' = Call("analyze_smoker_impact", processed_data, "", "ok",
                   SmokerImpact(AnalyzerData))
    /\ UNCHANGED <<file, heap, raw_data, processed_data, held, extract_succeeded,
                   transform_succeeded, disk>>

\* identify_high_risk_profiles(threshold_percentile), lines 139-142
IdentifyHighRiskProfiles ==
    /\ processed_data # None
    /\ \E percentile \in Percentiles :
          ret' = IF ~QuantileAccepts(percentile)
                 THEN Call("identify_high_risk_profiles", processed_data, percentile,
                           "ValueError", None)
                 ELSE Call("identify_high_risk_profiles", processed_data, percentile,
                           "ok", HighRisk(AnalyzerData, percentile))
    /\ UNCHANGED <<file, heap, raw_data, processed_data, held, extract_succeeded,
                   transform_succeeded, disk>>

\* the calls of the analysis: extract and transform, each as one call, and
\* the analyzer on what transform returned
Next ==
    \/ Idle /\ Extract /\ UNCHANGED pipeline
    \/ Idle /\ Transform /\ UNCHANGED pipeline
    \/ Idle /\ AnalyzeChargesByFactor /\ UNCHANGED pipeline
    \/ Idle /\ AnalyzeSmokerImpact /\ UNCHANGED pipeline
    \/ Idle /\ IdentifyHighRiskProfiles /\ UNCHANGED pipeline

Spec == Init /\ [][Next]_vars

\* the calls on the ETL object: extract, transform and load, each as one
\* call, and run_pipeline, whose calls run one after the other with no
\* other call in between (the program is single-threaded)
ETLNext ==
    \/ Idle /\ Extract /\ UNCHANGED pipeline
    \/ Idle /\ Transform /\ UNCHANGED pipeline
    \/ Idle /\ Load /\ UNCHANGED pipeline
    \/ RunPipeline
    \/ PipelineExtract
    \/ PipelineTransform
    \/ PipelineLoad
    \/ PipelineReturn

ETLSpec == Init /\ [][ETLNext]_vars

\* ================================================================== claims
\* the frame a transform() call read: its argument, or raw_data without one
Source(call, raw) == IF call.data = None THEN raw ELSE call.data

TransformReturned(call) == call.op = "transform" /\ call.status = "ok"

\* the seven raw values of a row
RawOf(r) == [c \in RawCols |-> r[c]]

\* the j-th smallest member of a set of integers
Kth(S, j) == CHOOSE x \in S : Cardinality({y \in S : y < x}) = j - 1

ProcessedRows == heap[processed_data].rows

\* the breakpoints as the data model states them: closed on the left
StatedBmiCategory(bmi) ==
    IF 0 < bmi /\ bmi < 185 THEN "Underweight"
    ELSE IF 185 <= bmi /\ bmi < 250 THEN "Normal"
    ELSE IF 250 <= bmi /\ bmi < 300 THEN "Overweight"
    ELSE IF 300 <= bmi /\ bmi < 1000 THEN "Obese"
    ELSE Null

\* C1: every record of the processed dataset has the bmi_category of the
\* breakpoints (0,18.5) Underweight, [18.5,25) Normal, [25,30) Overweight,
\* [30,100) Obese, and a null category outside (0,100).
C1_BmiCategoryLeftClosed ==
    processed_data # None =>
        \A i \in 1..Len(ProcessedRows) :
            ProcessedRows[i].bmi_category = StatedBmiCategory(ProcessedRows[i].bmi)

\* C2: every record of the processed dataset with an age in (0,100] has the
\* age_group of the breakpoints (0,25] 18-25, (25,35] 26-35, (35,45] 36-45,
\* (45,55] 46-55, (55,100] 56+.
C2_AgeGroupRightClosed ==
    processed_data # None =>
        \A i \in 1..Len(ProcessedRows) :
            LET age == ProcessedRows[i].age
                group == ProcessedRows[i].age_group
            IN /\ (0 < age /\ age <= 25) => group = "18-25"
               /\ (25 < age /\ age <= 35) => group = "26-35"
               /\ (35 < age /\ age <= 45) => group = "36-45"
               /\ (45 < age /\ age <= 55) => group = "46-55"
               /\ (55 < age /\ age <= 100) => group = "56+"

\* a processed dataset holds the ages 25 and 26 in their two groups
C2_Witness ==
    /\ processed_data # None
    /\ \E i, j \in 1..Len(ProcessedRows) :
          /\ ProcessedRows[i].age = 25 /\ ProcessedRows[i].age_group = "18-25"
          /\ ProcessedRows[j].age = 26 /\ ProcessedRows[j].age_group = "26-35"

\* C3: a transform() call that returns removes exactly the records with a
\* null cell: the processed dataset has as many rows as the input has rows
\* without a null, and its j-th row carries the seven raw values of the
\* j-th such row of the input.
C3_DropsExactlyNullRows ==
    [][TransformReturned(ret') =>
          LET input == heap[Source(ret', raw_data)].rows
              output == heap'[processed_data'].rows
              complete == {i \in 1..Len(input) : input[i].nulls = {}}
              incomplete == (1..Len(input)) \ complete
          IN /\ Len(output) = Len(input) - Cardinality(incomplete)
             /\ \A j \in 1..Len(output) :
                   RawOf(output[j]) = RawOf(input[Kth(complete, j)])]_vars

\* transform() has dropped the first of two rows and kept the second
C3_Witness ==
    /\ TransformReturned(ret)
    /\ ret.data = held
    /\ Len(heap[held].rows) = 2
    /\ heap[held].rows[1].nulls # {}
    /\ heap[held].rows[2].nulls = {}
    /\ Len(ProcessedRows) = 1
    /\ RawOf(ProcessedRows[1]) = RawOf(heap[held].rows[2])

GroupsReturned(call) == call.op = "analyze_charges_by_factor" /\ call.status = "ok"

\* C4 as stated: for every factor that is a column of the processed dataset
\* the group counts sum to the number of its records.
C4_CountsSumToTotal ==
    GroupsReturned(ret) => CountTotal(ret.value) = Len(heap[ret.data].rows)

\* C4 as amended: the group counts sum to the number of records whose value
\* of the factor is not null.
C4_CountsSumToKeyed ==
    GroupsReturned(ret) =>
        CountTotal(ret.value)
            = Cardinality({i \in 1..Len(heap[ret.data].rows) :
                              ret.param \notin heap[ret.data].rows[i].nulls})

\* of two records one has a bmi outside (0,100], and the counts by
\* bmi_category sum to one
C4_Witness ==
    /\ GroupsReturned(ret)
    /\ ret.param = "bmi_category"
    /\ Len(heap[ret.data].rows) = 2
    /\ CountTotal(ret.value) = 1

\* C5: with no record whose smoker is 'no', analyze_smoker_impact() does not
\* return normally with a NaN percentage_increase.
C5_NoSilentNaN ==
    (/\ ret.op = "analyze_smoker_impact"
     /\ \A i \in 1..Len(heap[ret.data].rows) : heap[ret.data].rows[i].smoker # "no")
    => (ret.status = "ok" => ~IsNaN(ret.value.percentage_increase))

HighRiskReturned(call) == call.op = "identify_high_risk_profiles" /\ call.status = "ok"

\* C6: on a dataset that is not empty, identify_high_risk_profiles(100)
\* returns exactly the records with the largest charges, (0) returns every
\* record, and any percentile returns exactly the records whose charges are
\* at least the percentile's threshold, the threshold included.
C6_HighRiskInclusive ==
    (HighRiskReturned(ret) /\ Len(heap[ret.data].rows) > 0) =>
        LET rows == heap[ret.data].rows
            largest == Max({rows[i].charges : i \in 1..Len(rows)})
            sorted == Ascending(rows, 1..Len(rows))
        IN /\ ret.param = 100 =>
                 ret.value.rows = SelectSeq(rows, LAMBDA r : r.charges = largest)
           /\ ret.param = 0 => ret.value.rows = rows
           /\ ret.value.rows
                 = SelectSeq(rows, LAMBDA r :
                      100 * r.charges >= Quantile100(sorted, ret.param))

\* percentile 100 on two records that share the largest charges returns both
C6_Witness ==
    /\ HighRiskReturned(ret)
    /\ ret.param = 100
    /\ Len(heap[ret.data].rows) = 2
    /\ Len(ret.value.rows) = 2
    /\ heap[ret.data].rows[1] # heap[ret.data].rows[2]

\* C7: transform() without an argument, before any extract() has succeeded,
\* raises and leaves processed_data, and the frame it refers to, as it was.
C7_TransformNeedsExtract ==
    [][(ret'.op = "transform" /\ ret'.data = None /\ ~extract_succeeded) =>
          /\ ret'.status = "ValueError"
          /\ ret'.value = None
          /\ processed_data' = processed_data
          /\ processed_data # None =>
                /\ processed_data \in DOMAIN heap'
                /\ heap'[processed_data] = heap[processed_data]]_vars

\* transform() has raised on an object whose processed_data an earlier
\* transform(data) had set
C7_Witness ==
    /\ ret.op = "transform"
    /\ ret.data = None
    /\ ret.status = "ValueError"
    /\ ~extract_succeeded
    /\ processed_data # None
    /\ Len(ProcessedRows) > 0

\* C8: transform() leaves the frame it read, and raw_data, as they were
\* (same rows, same seven columns, same values), and the processed dataset
\* is another object than the one it read and carries the derived columns.
C8_InputNotMutated ==
    [][ret'.op = "transform" =>
          /\ raw_data' = raw_data
          /\ \A r \in {raw_data, ret'.data} \ {None} :
                /\ r \in DOMAIN heap'
                /\ heap'[r] = heap[r]
          /\ ret'.status = "ok" =>
                /\ processed_data' \notin {raw_data, ret'.data}
                /\ ret'.value = processed_data'
                /\ DerivedCols \subseteq heap'[processed_data'].cols]_vars

\* transform(data) has returned on a caller's dataset with a null cell,
\* which still has its rows and only the raw columns, next to raw_data
C8_Witness ==
    /\ TransformReturned(ret)
    /\ ret.data = held
    /\ raw_data # None
    /\ \E i \in 1..Len(heap[held].rows) : heap[held].rows[i].nulls # {}
    /\ heap[held].cols = RawCols
    /\ Len(ProcessedRows) < Len(heap[held].rows)

InDomain(r) == r.sex \in Sexes /\ r.smoker \in SmokerValues /\ r.region \in Regions

\* C9 as stated: no record of a processed dataset has a sex outside
\* {male, female}, a smoker outside {yes, no} or a region outside the
\* region set.
C9_OutOfDomainExcluded ==
    processed_data # None =>
        \A i \in 1..Len(ProcessedRows) : InDomain(ProcessedRows[i])

\* C9 as amended: transform() keeps every record without a null cell,
\* whatever its sex, smoker and region are: such a record of the input is
\* in the processed dataset with its raw values.
C9_OutOfDomainKept ==
    [][TransformReturned(ret') =>
          LET input == heap[Source(ret', raw_data)].rows
              output == heap'[processed_data'].rows
          IN \A i \in 1..Len(input) :
                (input[i].nulls = {} /\ ~InDomain(input[i])) =>
                    \E j \in 1..Len(output) : RawOf(output[j]) = RawOf(input[i])]_vars

\* a processed dataset holds a record of region "mars"
C9_Witness ==
    /\ processed_data # None
    /\ \E i \in 1..Len(ProcessedRows) :
          /\ ProcessedRows[i].region = "mars"
          /\ ProcessedRows[i].is_smoker = 0

\* C10: identify_high_risk_profiles with a percentile below 0 or above 100
\* raises and returns nothing.
C10_PercentileRange ==
    (ret.op = "identify_high_risk_profiles" /\ (ret.param < 0 \/ ret.param > 100)) =>
        (ret.status = "ValueError" /\ ret.value = None)

\* the call has raised for 105 on a dataset that is not empty
C10_Witness ==
    /\ ret.op = "identify_high_risk_profiles"
    /\ ret.param = 105
    /\ ret.status = "ValueError"
    /\ Len(heap[ret.data].rows) > 0

\* C11: analyze_charges_by_factor raises exactly when the factor is not a
\* column of the dataset, returning nothing and leaving the dataset and the
\* ETL object as they were; for every factor that is a column it returns a
\* result.
C11_UnknownFactorRaises ==
    [][ret'.op = "analyze_charges_by_factor" =>
          /\ heap' = heap
          /\ raw_data' = raw_data
          /\ processed_data' = processed_data
          /\ ret'.data = processed_data
          /\ IF ret'.param \in heap[processed_data].cols
             THEN ret'.status = "ok"
             ELSE ret'.status = "ValueError" /\ ret'.value = None]_vars

\* the call has raised for a name that is no column, on a dataset with rows
C11_Witness ==
    /\ ret.op = "analyze_charges_by_factor"
    /\ ret.param = "zodiac"
    /\ ret.param \notin heap[ret.data].cols
    /\ ret.status = "ValueError"
    /\ Len(heap[ret.data].rows) > 0

\* C12: every record of the processed dataset with children >= 0 has
\* charges_per_person = charges / (children + 1), from its own fields; with
\* children = 0 it is charges.
C12_ChargesPerPerson ==
    processed_data # None =>
        \A i \in 1..Len(ProcessedRows) :
            LET r == ProcessedRows[i]
            IN r.children >= 0 =>
                  /\ r.charges_per_person.k = "num"
                  /\ r.charges_per_person.n * (r.children + 1)
                        = r.charges * r.charges_per_person.d
                  /\ r.children = 0 =>
                        r.charges_per_person = [k |-> "num", n |-> r.charges, d |-> 1]

\* a processed record with two children has a third of its charges per
\* person, which is no whole number
C12_Witness ==
    /\ processed_data # None
    /\ \E i \in 1..Len(ProcessedRows) :
          /\ ProcessedRows[i].children = 2
          /\ ProcessedRows[i].charges = 20000
          /\ ProcessedRows[i].charges_per_person = [k |-> "num", n |-> 20000, d |-> 3]

PipelineOrder == <<"extract", "transform", "load">>

\* the steps are the first steps of extract, transform, load
InPipelineOrder(steps) ==
    /\ Len(steps) <= Len(PipelineOrder)
    /\ \A i \in 1..Len(steps) : steps[i] = PipelineOrder[i]

\* C13: load() without a dataset raises, with the output side untouched,
\* unless an earlier transform() has succeeded, so it writes only after
\* one; and the calls of run_pipeline() are extract, transform, load in that
\* order, load only for an output path, and all of them when it returns.
C13_LoadAfterTransformInOrder ==
    [][/\ (ret'.op = "load" /\ ret'.data = None /\ ~transform_succeeded) =>
             (ret'.status = "ValueError" /\ disk' = disk)
       /\ (ret'.op = "load" /\ ret'.data = None /\ disk' # disk) =>
             (transform_succeeded /\ ret'.status = "ok")
       /\ InPipelineOrder(pipeline'.steps)
       /\ (Len(pipeline'.steps) = Len(PipelineOrder)) => pipeline'.path # NoPath
       /\ (ret'.op = "run_pipeline" /\ ret'.status # "running") =>
             /\ InPipelineOrder(ret'.value.steps)
             /\ ret'.status = "ok" =>
                   /\ ret'.value.steps
                         = IF ret'.param = NoPath
                           THEN SubSeq(PipelineOrder, 1, 2)
                           ELSE PipelineOrder
                   /\ ret'.value.result = processed_data']_vars

\* load() without a dataset has raised after an extract() and before any
\* transform(), and nothing is on the output side
C13_Witness ==
    /\ ret.op = "load"
    /\ ret.data = None
    /\ ret.status = "ValueError"
    /\ extract_succeeded
    /\ ~transform_succeeded
    /\ disk.dirs = {}
    /\ disk.files = <<>>

RawSame ==
    /\ raw_data' = raw_data
    /\ raw_data # None => (raw_data \in DOMAIN heap' /\ heap'[raw_data] = heap[raw_data])

ProcessedSame ==
    /\ processed_data' = processed_data
    /\ processed_data # None =>
          (processed_data \in DOMAIN heap' /\ heap'[processed_data] = heap[processed_data])

\* C14: extract() and load() leave processed_data as it was; a transform()
\* or load() that raises leaves raw_data and processed_data as they were;
\* processed_data changes only in a transform() that returns.
C14_ProcessedOnlyByTransform ==
    [][/\ ret'.op \in {"extract", "load"} => ProcessedSame
       /\ (ret'.op \in {"transform", "load"} /\ ret'.status # "ok") =>
             (RawSame /\ ProcessedSame)
       /\ ~ProcessedSame => (ret'.op = "transform" /\ ret'.status = "ok")]_vars

\* an extract() has returned on an object that holds a processed dataset
C14_Witness ==
    /\ ret.op = "extract"
    /\ ret.status = "ok"
    /\ processed_data # None
    /\ Len(ProcessedRows) > 0
    /\ raw_data # None

=============================================================================
